---------------------------- MODULE Spec2Model ----------------------------
(***************************************************************************)
(* A model of the tree-walking evaluator of src/src/interpret.rs.          *)
(*                                                                         *)
(* The interpreter owns a value stack and a flat map of local bindings     *)
(* and reads an immutable global program table.  eval_expr is recursive;   *)
(* the model keeps the chain of its live activations in `ctl`, one frame   *)
(* per activation, and every action is the code one activation runs        *)
(* between two consecutive recursive calls.                                *)
(*                                                                         *)
(* Expressions (ExprT) and values (Value) are tuples whose first element   *)
(* is the variant's name.  Text (Rust String) is a sequence of one-        *)
(* character strings, identifiers are plain strings.                       *)
(***************************************************************************)
EXTENDS Integers, Sequences, FiniteSets, TLC

VARIABLES
    program,   \* Interpreter.program: the global table root_scope.bindings
    stack,     \* Interpreter.stack
    bindings,  \* Interpreter.bindings
    out,       \* the text written to standard output so far
    ctl,       \* the live activations of eval_expr, innermost last
    status,    \* "init", "running", "done" or "fatal" (a panic)
    result,    \* what interpret pops after main has run
    hist,      \* history: per activation, the stack and bindings at entry
               \* and the (expression, value) of each completed sub-call
    calls      \* history: (closure, argument, result) of completed calls

vars == <<program, stack, bindings, out, ctl, status, result, hist, calls>>

(***************************************************************************)
(* Bounds of the explored inputs.                                          *)
(***************************************************************************)
MaxInt == 7
MaxStrLen == 3

(***************************************************************************)
(* Maps (HashMap<String, Value>) as functions on a finite set of names.    *)
(***************************************************************************)
EmptyMap == [n \in {} |-> <<>>]

insert(m, k, v) == [n \in (DOMAIN m) \cup {k} |-> IF n = k THEN v ELSE m[n]]

remove(m, k) == [n \in (DOMAIN m) \ {k} |-> m[n]]

Last(s) == s[Len(s)]

Front(s) == SubSeq(s, 1, Len(s) - 1)

Tag(v) == v[1]

Ok(v) == <<"ok", v>>

Panic == <<"panic">>

(***************************************************************************)
(* Integer x Integer operators of BinaryOp.  Rust's / and % truncate       *)
(* toward zero and panic on a zero divisor; & and | act on the two's       *)
(* complement bits.  The operands explored here stay far from the i64      *)
(* limits, so no arithmetic overflows.                                     *)
(***************************************************************************)
Abs(n) == IF n < 0 THEN -n ELSE n

TruncDiv(l, r) ==
    IF (l < 0) = (r < 0) THEN Abs(l) \div Abs(r) ELSE -(Abs(l) \div Abs(r))

TruncRem(l, r) == l - r * TruncDiv(l, r)

RECURSIVE BitAnd(_, _)
BitAnd(l, r) ==
    IF l = 0 \/ r = 0 THEN 0
    ELSE IF l = -1 THEN r
    ELSE IF r = -1 THEN l
    ELSE (l % 2) * (r % 2) + 2 * BitAnd(l \div 2, r \div 2)

RECURSIVE BitOr(_, _)
BitOr(l, r) ==
    IF l = 0 THEN r
    ELSE IF r = 0 THEN l
    ELSE IF l = -1 \/ r = -1 THEN -1
    ELSE (IF l % 2 = 1 \/ r % 2 = 1 THEN 1 ELSE 0) + 2 * BitOr(l \div 2, r \div 2)

Bool2Int(b) == IF b THEN 1 ELSE 0

IntegerOp(op, l, r) ==
    CASE op = "BinOpAdd" -> Ok(l + r)
      [] op = "BinOpSub" -> Ok(l - r)
      [] op = "BinOpMul" -> Ok(l * r)
      [] op = "BinOpDiv" -> IF r = 0 THEN Panic ELSE Ok(TruncDiv(l, r))
      [] op = "BinOpLess" -> Ok(Bool2Int(l < r))
      [] op = "BinOpLessEq" -> Ok(Bool2Int(l <= r))
      [] op = "BinOpGreater" -> Ok(Bool2Int(l > r))
      [] op = "BinOpGreaterEq" -> Ok(Bool2Int(l >= r))
      [] op = "BinOpEquals" -> Ok(Bool2Int(l = r))
      [] op = "BinOpAnd" -> Ok(BitAnd(l, r))
      [] op = "BinOpOr" -> Ok(BitOr(l, r))
      [] op = "BinOpMod" -> IF r = 0 THEN Panic ELSE Ok(TruncRem(l, r))
      [] OTHER -> Panic

StringOp(op, l, r) ==
    IF op = "BinOpEquals" THEN Ok(Bool2Int(l = r)) ELSE Panic

\* Variant of BinaryOp that takes the first popped value as the left operand.
BinaryOp_swapped(op, first, second) ==
    IF Tag(first) = "Integer" /\ Tag(second) = "Integer"
    THEN LET n == IntegerOp(op, first[2], second[2])
         IN  IF n = Panic THEN Panic ELSE Ok(<<"Integer", n[2]>>)
    ELSE IF Tag(first) = "String" /\ Tag(second) = "String"
    THEN LET n == StringOp(op, first[2], second[2])
         IN  IF n = Panic THEN Panic ELSE Ok(<<"Integer", n[2]>>)
    ELSE Panic

\* The match on the two popped values: the first pop is the right operand.
BinaryOp(op, first, second) ==
    IF Tag(first) = "Integer" /\ Tag(second) = "Integer"
    THEN LET r == first[2]
             l == second[2]
             n == IntegerOp(op, l, r)
         IN  IF n = Panic THEN Panic ELSE Ok(<<"Integer", n[2]>>)
    ELSE IF Tag(first) = "String" /\ Tag(second) = "String"
    THEN LET r == first[2]
             l == second[2]
             n == StringOp(op, l, r)
         IN  IF n = Panic THEN Panic ELSE Ok(<<"Integer", n[2]>>)
    ELSE Panic

(***************************************************************************)
(* Text helpers of the built-ins.                                          *)
(***************************************************************************)
None == <<>>

\* str::find: <<i>> for the first index (0-based) at which pat starts in s.
RECURSIVE FindFrom(_, _, _)
FindFrom(s, pat, i) ==
    IF i + Len(pat) > Len(s) THEN None
    ELSE IF SubSeq(s, i + 1, i + Len(pat)) = pat THEN <<i>>
    ELSE FindFrom(s, pat, i + 1)

find(s, pat) == FindFrom(s, pat, 0)

Digits == <<"0", "1", "2", "3", "4", "5", "6", "7", "8", "9">>

IsDigit(c) == \E d \in 1..10 : Digits[d] = c

DigitVal(c) == (CHOOSE d \in 1..10 : Digits[d] = c) - 1

RECURSIVE DigitsVal(_, _)
DigitsVal(s, acc) ==
    IF s = <<>> THEN acc ELSE DigitsVal(Tail(s), 10 * acc + DigitVal(Head(s)))

\* str::parse::<i64>: an optional sign, then one or more decimal digits.
parse(s) ==
    LET signed == s # <<>> /\ Head(s) \in {"+", "-"}
        ds == IF signed THEN Tail(s) ELSE s
    IN  IF ds = <<>> \/ \E i \in 1..Len(ds) : ~IsDigit(ds[i]) THEN None
        ELSE IF signed /\ Head(s) = "-" THEN <<-DigitsVal(ds, 0)>>
        ELSE <<DigitsVal(ds, 0)>>

RECURSIVE NatToDecimal(_)
NatToDecimal(n) ==
    IF n < 10 THEN <<Digits[n + 1]>>
    ELSE Append(NatToDecimal(n \div 10), Digits[(n % 10) + 1])

\* Display for i64, as print!("{}", i) writes it.
ToDecimal(i) == IF i < 0 THEN <<"-">> \o NatToDecimal(-i) ELSE NatToDecimal(i)

\* The files std::fs::read_to_string can read; any other path is an error.
Files == [p \in {<<"f">>} |-> <<"4", "2">>]

\* Variant of StringSplit that leaves the separator at the head of the suffix.
StringSplit_keeps_separator(input, seperator) ==
    LET found == find(input, seperator)
    IN  IF found # None
        THEN <<"Tuple", << <<"String", SubSeq(input, 1, found[1])>>,
                           <<"String", SubSeq(input, found[1] + 1, Len(input))>> >> >>
        ELSE <<"Tuple", << <<"String", input>>, <<"String", <<>> >> >> >>

StringSplit(input, seperator) ==
    LET found == find(input, seperator)
    IN  IF found # None
        THEN LET sep_i == found[1]
                 up == SubSeq(input, 1, sep_i)
                 to == SubSeq(input, sep_i + 1, Len(input))
             IN  <<"Tuple", << <<"String", up>>,
                               <<"String", SubSeq(to, Len(seperator) + 1, Len(to))>> >> >>
        ELSE <<"Tuple", << <<"String", input>>, <<"String", <<>> >> >> >>

(***************************************************************************)
(* call_builtin: [val |-> Ok(pushed value) or Panic, out |-> output].      *)
(***************************************************************************)
call_builtin(builtin, arg, o) ==
    CASE builtin = "FileRead" ->
            IF Tag(arg) = "String" /\ arg[2] \in DOMAIN Files
            THEN [val |-> Ok(<<"String", Files[arg[2]]>>), out |-> o]
            ELSE [val |-> Panic, out |-> o]
      [] builtin = "Print" ->
            IF Tag(arg) = "String"
            THEN [val |-> Ok(<<"Unit">>), out |-> o \o arg[2]]
            ELSE [val |-> Panic, out |-> o]
      [] builtin = "Printi" ->
            IF Tag(arg) = "Integer"
            THEN [val |-> Ok(<<"Unit">>), out |-> o \o ToDecimal(arg[2])]
            ELSE [val |-> Panic, out |-> o]
      [] builtin = "StringParseInt" ->
            IF Tag(arg) = "String" /\ parse(arg[2]) # None
            THEN [val |-> Ok(<<"Integer", parse(arg[2])[1]>>), out |-> o]
            ELSE [val |-> Panic, out |-> o]
      [] builtin = "StringGetFirst" ->
            IF Tag(arg) = "String" /\ Len(arg[2]) >= 1
            THEN [val |-> Ok(<<"Tuple", << <<"String", SubSeq(arg[2], 1, 1)>>,
                                           <<"String", Tail(arg[2])>> >> >>),
                  out |-> o]
            ELSE [val |-> Panic, out |-> o]
      [] builtin = "StringSplit" ->
            IF /\ Tag(arg) = "Tuple"
               /\ Len(arg[2]) = 2
               /\ Tag(arg[2][1]) = "String"
               /\ Tag(arg[2][2]) = "String"
            THEN [val |-> Ok(StringSplit(arg[2][1][2], arg[2][2][2])), out |-> o]
            ELSE [val |-> Panic, out |-> o]
      [] OTHER -> [val |-> Panic, out |-> o]

(***************************************************************************)
(* The value of Symbol(s): the global table is consulted first, the local  *)
(* bindings only for a name the global table does not hold.                *)
(***************************************************************************)
lookup(s, prog, locals) ==
    IF s \in DOMAIN prog
    THEN LET b == prog[s]
         IN  IF Tag(b) = "Lambda" THEN Ok(<<"Function", b[2], EmptyMap, b[3]>>)
             ELSE IF Tag(b) = "BuiltInFn" THEN Ok(<<"BuiltInFn", b[2]>>)
             ELSE Panic
    ELSE IF s \in DOMAIN locals THEN Ok(locals[s])
    ELSE Panic

\* The declared types, program.environment.types, indexed by handle.
Types == << <<"Sum", <<"A", "B", "C">> >>, <<"Record">> >>

VariantConstructor(th, vi) ==
    IF th \in 0..(Len(Types) - 1) /\ Tag(Types[th + 1]) = "Sum"
                                  /\ vi \in 0..(Len(Types[th + 1][2]) - 1)
    THEN Ok(<<"VariantConstructorFn", th, vi>>)
    ELSE Panic

\* Variant of FirstArm that takes the arm at position vi of the declaration.
FirstArm_by_position(arms, vi, k) == IF vi + 1 <= Len(arms) THEN vi + 1 ELSE 0

\* The first arm (arm_i, binding, body) whose index is vi, 0 when none is.
RECURSIVE FirstArm(_, _, _)
FirstArm(arms, vi, k) ==
    IF k > Len(arms) THEN 0
    ELSE IF arms[k][1] = vi THEN k
    ELSE FirstArm(arms, vi, k + 1)


(***************************************************************************)
(* Activations of eval_expr.  A frame is [expr, pc, loc]: the expression,  *)
(* the point the activation has reached and its local variables there.     *)
(***************************************************************************)
Top == Last(ctl)

At(kind, pc) ==
    /\ status = "running"
    /\ ctl # <<>>
    /\ Tag(Top.expr) = kind
    /\ Top.pc = pc

Frame(e) == [expr |-> e, pc |-> "start", loc |-> <<>>]

Entry(stk, bnd) == [entry |-> stk, scope |-> bnd, kids |-> <<>>, call |-> <<>>]

SetTop(pc, loc) == [ctl EXCEPT ![Len(ctl)] = [@ EXCEPT !.pc = pc, !.loc = loc]]

\* Continue the current activation at pc with stack stk and bindings bnd.
Goto(pc, loc, stk, bnd) ==
    /\ ctl' = SetTop(pc, loc)
    /\ stack' = stk
    /\ bindings' = bnd
    /\ UNCHANGED <<program, status, result, hist>>

\* self.eval_expr(e); the current activation resumes at pc.
Call(pc, loc, stk, bnd, e) ==
    /\ ctl' = Append(SetTop(pc, loc), Frame(e))
    /\ hist' = Append(hist, Entry(stk, bnd))
    /\ stack' = stk
    /\ bindings' = bnd
    /\ UNCHANGED <<program, status, result>>

\* A panic: the evaluation stops where it is.
Fatal ==
    /\ status' = "fatal"
    /\ UNCHANGED <<program, stack, bindings, ctl, result, hist>>

\* push_val(v) and return.
Push(v) == Goto("ret", <<>>, Append(stack, v), bindings)


(***************************************************************************)
(* The scopes a closure is made from and called in.                        *)
(***************************************************************************)
\* Lambda: self.bindings.clone().into_iter().collect()
snapshot(locals) == locals

\* Variant of call_scope that leaves out bindings.clear(): the caller's
\* bindings stay visible in the body.
call_scope_dynamic(curried, p, rv, caller) ==
    insert([n \in (DOMAIN caller) \cup (DOMAIN curried) |->
               IF n \in DOMAIN curried THEN curried[n] ELSE caller[n]], p, rv)

\* Application of a Function: bindings.clear(), the curried pairs, then p.
call_scope(curried, p, rv, caller) == insert(curried, p, rv)

\* Variant of Branch that takes only a positive condition as true.
Branch_positive(popped, cons, alt) ==
    IF Tag(popped) = "Integer" /\ popped[2] > 0 THEN cons ELSE alt

\* Conditional: the branch the popped condition value selects.
Branch(popped, cons, alt) ==
    IF Tag(popped) = "Integer" /\ popped[2] = 0 THEN alt ELSE cons

(***************************************************************************)
(* interpret                                                               *)
(***************************************************************************)
\* interpreter.call_fn("main")
CallMain ==
    /\ status = "init"
    /\ IF "main" \in DOMAIN program /\ Tag(program["main"]) = "Lambda"
       THEN /\ ctl' = <<Frame(program["main"][3])>>
            /\ hist' = <<Entry(stack, bindings)>>
            /\ status' = "running"
       ELSE /\ status' = "fatal"
            /\ UNCHANGED <<ctl, hist>>
    /\ UNCHANGED <<program, stack, bindings, out, result, calls>>

\* dbg!(interpreter.pop_val())
Finish ==
    /\ status = "running"
    /\ ctl = <<>>
    /\ status' = "done"
    /\ result' = IF stack = <<>> THEN None ELSE <<Last(stack)>>
    /\ stack' = IF stack = <<>> THEN stack ELSE Front(stack)
    /\ UNCHANGED <<program, bindings, out, ctl, hist, calls>>

\* An activation of eval_expr returns to its caller.
Return ==
    /\ status = "running"
    /\ ctl # <<>>
    /\ Top.pc = "ret"
    /\ ctl' = Front(ctl)
    /\ hist' = IF Len(hist) = 1 THEN <<>>
               ELSE [Front(hist) EXCEPT
                        ![Len(hist) - 1].kids = Append(@, <<Top.expr, Last(stack)>>)]
    /\ UNCHANGED <<program, stack, bindings, out, status, result, calls>>

(***************************************************************************)
(* eval_expr, one group of actions per arm of its match.                   *)
(***************************************************************************)
\* ExprT::Tuple and ExprT::Record: the head of the loop over the elements.
TupleLoop(kind) ==
    /\ status = "running"
    /\ ctl # <<>>
    /\ Tag(Top.expr) = kind
    /\ Top.pc \in {"start", "loop"}
    /\ LET exprs == Top.expr[2]
           vals == IF Top.pc = "start" THEN <<>> ELSE Top.loc[1]
       IN  IF Len(vals) < Len(exprs)
           THEN Call("elem", <<vals>>, stack, bindings, exprs[Len(vals) + 1])
           ELSE Push(<<"Tuple", vals>>)
    /\ UNCHANGED <<out, calls>>

\* vals.push(self.pop_val().unwrap())
TupleElem(kind) ==
    /\ At(kind, "elem")
    /\ Goto("loop", <<Append(Top.loc[1], Last(stack))>>, Front(stack), bindings)
    /\ UNCHANGED <<out, calls>>

LetStart ==
    /\ At("LetBinding", "start")
    /\ Call("rhs", <<>>, stack, bindings, Top.expr[3])
    /\ UNCHANGED <<out, calls>>

\* Variant of LetBind that reads the value of rhs without popping it.
LetBind_peek ==
    /\ At("LetBinding", "rhs")
    /\ Call("body", <<>>, stack, insert(bindings, Top.expr[2], Last(stack)), Top.expr[4])
    /\ UNCHANGED <<out, calls>>

LetBind ==
    /\ At("LetBinding", "rhs")
    /\ LET binding == Top.expr[2]
           rv == Last(stack)
       IN  Call("body", <<>>, Front(stack), insert(bindings, binding, rv), Top.expr[4])
    /\ UNCHANGED <<out, calls>>

LetExit ==
    /\ At("LetBinding", "body")
    /\ Goto("ret", <<>>, stack, remove(bindings, Top.expr[2]))
    /\ UNCHANGED <<out, calls>>

MatchStart ==
    /\ At("MatchSum", "start")
    /\ Call("matchee", <<>>, stack, bindings, Top.expr[2])
    /\ UNCHANGED <<out, calls>>

MatchArm ==
    /\ At("MatchSum", "matchee")
    /\ LET arms == Top.expr[3]
           popped == Last(stack)
       IN  IF stack # <<>> /\ Tag(popped) = "Variant"
           THEN LET vi == popped[3]
                    val == popped[4]
                    k == FirstArm(arms, vi, 1)
                IN  IF k = 0 THEN Fatal
                    ELSE LET binding == arms[k][2]
                             bound == IF binding = <<>> THEN bindings
                                      ELSE insert(bindings, binding[1], val)
                         IN  Call("body", <<binding>>, Front(stack), bound, arms[k][3])
           ELSE Fatal
    /\ UNCHANGED <<out, calls>>

MatchExit ==
    /\ At("MatchSum", "body")
    /\ LET binding == Top.loc[1]
       IN  Goto("ret", <<>>, stack,
                IF binding = <<>> THEN bindings ELSE remove(bindings, binding[1]))
    /\ UNCHANGED <<out, calls>>

AppStart ==
    /\ At("Application", "start")
    /\ Call("callee", <<1>>, stack, bindings, Top.expr[2])
    /\ UNCHANGED <<out, calls>>

\* The head of the loop over the arguments: let top = self.pop_val().
AppLoop ==
    /\ At("Application", "callee")
    /\ LET rhs == Top.expr[3]
           i == Top.loc[1]
       IN  IF i > Len(rhs) THEN Goto("ret", <<>>, stack, bindings)
           ELSE IF stack = <<>> THEN Fatal
           ELSE LET top == Last(stack)
                IN  CASE Tag(top) = "Function" ->
                            Call("fn_arg", <<i, top>>, Front(stack), bindings, rhs[i])
                      [] Tag(top) = "VariantConstructorFn" ->
                            Call("ctor_arg", <<i, top>>, Front(stack), bindings, rhs[i])
                      [] Tag(top) = "BuiltInFn" ->
                            Call("builtin_arg", <<i, top>>, Front(stack), bindings, rhs[i])
                      [] OTHER -> Fatal
    /\ UNCHANGED <<out, calls>>

AppFunction ==
    /\ At("Application", "fn_arg")
    /\ LET i == Top.loc[1]
           p == Top.loc[2][2]
           curried == Top.loc[2][3]
           body == Top.loc[2][4]
           rv == Last(stack)
           bindings_tmp == bindings
           scope == call_scope(curried, p, rv, bindings)
       IN  /\ ctl' = Append(SetTop("fn_body", <<i, bindings_tmp>>), Frame(body))
           /\ hist' = Append([hist EXCEPT ![Len(hist)].call = <<Top.loc[2], rv>>],
                             Entry(Front(stack), scope))
           /\ stack' = Front(stack)
           /\ bindings' = scope
    /\ UNCHANGED <<program, out, status, result, calls>>

\* Variant of AppFunctionRet that leaves the loop after the first call.
AppFunctionRet_break ==
    /\ At("Application", "fn_body")
    /\ Goto("callee", <<Len(Top.expr[3]) + 1>>, stack, Top.loc[2])
    /\ calls' = Append(calls, <<Last(hist).call[1], Last(hist).call[2], Last(stack)>>)
    /\ UNCHANGED out

\* self.bindings = bindings_tmp
AppFunctionRet ==
    /\ At("Application", "fn_body")
    /\ Goto("callee", <<Top.loc[1] + 1>>, stack, Top.loc[2])
    /\ calls' = Append(calls, <<Last(hist).call[1], Last(hist).call[2], Last(stack)>>)
    /\ UNCHANGED out

AppVariantConstructor ==
    /\ At("Application", "ctor_arg")
    /\ LET th == Top.loc[2][2]
           vi == Top.loc[2][3]
           rv == Last(stack)
       IN  Goto("callee", <<Top.loc[1] + 1>>,
                Append(Front(stack), <<"Variant", th, vi, rv>>), bindings)
    /\ UNCHANGED <<out, calls>>

AppBuiltIn ==
    /\ At("Application", "builtin_arg")
    /\ LET f == Top.loc[2][2]
           argv == Last(stack)
           r == call_builtin(f, argv, out)
       IN  IF r.val = Panic THEN Fatal /\ UNCHANGED out
           ELSE /\ Goto("callee", <<Top.loc[1] + 1>>,
                        Append(Front(stack), r.val[2]), bindings)
                /\ out' = r.out
    /\ UNCHANGED calls

EvalLambda ==
    /\ At("Lambda", "start")
    /\ Push(<<"Function", Top.expr[2], snapshot(bindings), Top.expr[3]>>)
    /\ UNCHANGED <<out, calls>>

EvalBooleanLiteral ==
    /\ At("BooleanLiteral", "start")
    /\ Push(<<"Integer", Bool2Int(Top.expr[2])>>)
    /\ UNCHANGED <<out, calls>>

CondStart ==
    /\ At("Conditional", "start")
    /\ Call("cond", <<>>, stack, bindings, Top.expr[2])
    /\ UNCHANGED <<out, calls>>

CondBranch ==
    /\ At("Conditional", "cond")
    /\ Call("ret", <<>>, Front(stack), bindings,
            Branch(Last(stack), Top.expr[3], Top.expr[4]))
    /\ UNCHANGED <<out, calls>>

EvalSymbol ==
    /\ At("Symbol", "start")
    /\ LET val == lookup(Top.expr[2], program, bindings)
       IN  IF val = Panic THEN Fatal ELSE Push(val[2])
    /\ UNCHANGED <<out, calls>>

BinOpStart ==
    /\ At("BinaryOp", "start")
    /\ Call("lhs", <<>>, stack, bindings, Top.expr[3])
    /\ UNCHANGED <<out, calls>>

BinOpRhs ==
    /\ At("BinaryOp", "lhs")
    /\ Call("rhs", <<>>, stack, bindings, Top.expr[4])
    /\ UNCHANGED <<out, calls>>

BinOpCombine ==
    /\ At("BinaryOp", "rhs")
    /\ LET first == stack[Len(stack)]
           second == stack[Len(stack) - 1]
           r == BinaryOp(Top.expr[2], first, second)
       IN  IF r = Panic THEN Fatal
           ELSE Goto("ret", <<>>, Append(SubSeq(stack, 1, Len(stack) - 2), r[2]),
                     bindings)
    /\ UNCHANGED <<out, calls>>

EvalStringLiteral ==
    /\ At("StringLiteral", "start")
    /\ Push(<<"String", Top.expr[2]>>)
    /\ UNCHANGED <<out, calls>>

EvalIntegerLiteral ==
    /\ At("IntegerLiteral", "start")
    /\ Push(<<"Integer", Top.expr[2]>>)
    /\ UNCHANGED <<out, calls>>

EvalVariantConstructor ==
    /\ At("VariantConstructor", "start")
    /\ LET val == VariantConstructor(Top.expr[2], Top.expr[3])
       IN  IF val = Panic THEN Fatal ELSE Push(val[2])
    /\ UNCHANGED <<out, calls>>

EvalBuiltInFn ==
    /\ At("BuiltInFn", "start")
    /\ Push(<<"BuiltInFn", Top.expr[2]>>)
    /\ UNCHANGED <<out, calls>>

FieldStart ==
    /\ At("FieldAccess", "start")
    /\ Call("lhs", <<>>, stack, bindings, Top.expr[2])
    /\ UNCHANGED <<out, calls>>

FieldGet ==
    /\ At("FieldAccess", "lhs")
    /\ LET i == Top.expr[3]
           popped == Last(stack)
       IN  IF stack # <<>> /\ Tag(popped) = "Tuple" /\ i < Len(popped[2])
           THEN Goto("ret", <<>>, Append(Front(stack), popped[2][i + 1]), bindings)
           ELSE Fatal
    /\ UNCHANGED <<out, calls>>

EvalUnit ==
    /\ At("Unit", "start")
    /\ Push(<<"Unit">>)
    /\ UNCHANGED <<out, calls>>

\* Any other expression kind: unimplemented!()
Supported ==
    {"Tuple", "Record", "LetBinding", "MatchSum", "Application", "Lambda",
     "BooleanLiteral", "Conditional", "Symbol", "BinaryOp", "StringLiteral",
     "IntegerLiteral", "VariantConstructor", "BuiltInFn", "FieldAccess", "Unit"}

EvalUnsupported ==
    /\ status = "running"
    /\ ctl # <<>>
    /\ Top.pc = "start"
    /\ Tag(Top.expr) \notin Supported
    /\ Fatal
    /\ UNCHANGED <<out, calls>>


(***************************************************************************)
(* The programs explored: the typed expression trees handed to interpret.  *)
(***************************************************************************)
Lit(n) == <<"IntegerLiteral", n>>

Str(s) == <<"StringLiteral", s>>

Sym(s) == <<"Symbol", s>>

Let(x, rhs, body) == <<"LetBinding", x, rhs, body>>

Lam(p, body) == <<"Lambda", p, body>>

App(f, args) == <<"Application", f, args>>

Bin(op, l, r) == <<"BinaryOp", op, l, r>>

If(c, cons, alt) == <<"Conditional", c, cons, alt>>

Tup(es) == <<"Tuple", es>>

Match(m, arms) == <<"MatchSum", m, arms>>

Ctor(th, vi) == <<"VariantConstructor", th, vi>>

BuiltIn(f) == <<"BuiltInFn", f>>

Field(e, i) == <<"FieldAccess", e, i>>

Unit == <<"Unit">>

Ints == (-MaxInt)..MaxInt

SmallInts == {-1, 0, 2}

Names == {"x", "y", "double"}

Operators ==
    {"BinOpAdd", "BinOpSub", "BinOpMul", "BinOpDiv", "BinOpLess", "BinOpLessEq",
     "BinOpGreater", "BinOpGreaterEq", "BinOpEquals", "BinOpAnd", "BinOpOr",
     "BinOpMod", "BinOpNotEquals"}

BuiltIns ==
    {"FileRead", "Print", "Printi", "StringParseInt", "StringGetFirst",
     "StringSplit", "StringConcat"}

Alphabet == {"a", ","}

Strings(n) == UNION {[1..k -> Alphabet] : k \in 0..n}

\* The top-level definitions next to main.
Globals ==
    [n \in {"double", "sub", "sum", "print", "split", "answer"} |->
        CASE n = "double" -> Lam("x", Bin("BinOpAdd", Sym("x"), Sym("x")))
          [] n = "sub" -> Lam("a", Lam("b", Bin("BinOpSub", Sym("a"), Sym("b"))))
          [] n = "sum" ->
                Lam("n", If(Sym("n"),
                            Bin("BinOpAdd", Sym("n"),
                                App(Sym("sum"), <<Bin("BinOpSub", Sym("n"), Lit(1))>>)),
                            Lit(0)))
          [] n = "print" -> BuiltIn("Print")
          [] n = "split" -> BuiltIn("StringSplit")
          [] n = "answer" -> Lit(4)]

Say(s) == App(Sym("print"), <<Str(s)>>)

ArithmeticPrograms ==
    {Bin(op, Lit(l), Lit(r)) : op \in Operators, l \in Ints, r \in Ints}
    \cup {Bin(op, l, r) : op \in {"BinOpEquals", "BinOpAdd"},
                          l \in {Str(<<"a">>), Lit(1)},
                          r \in {Str(<<"a">>), Str(<<>>), Unit}}
    \cup {Bin("BinOpAdd", Say(<<"a">>), Say(<<",">>))}

SplitPrograms ==
    {App(f, <<Tup(<<Str(input), Str(sep)>>)>>) :
        f \in {BuiltIn("StringSplit")}, input \in Strings(MaxStrLen),
        sep \in Strings(MaxStrLen - 1)}
    \cup {App(Sym("split"), <<Tup(<<Str(<<"a", ",", "b", ",", "c">>), Str(<<",">>)>>)>>),
          App(Sym("split"), <<Tup(<<Str(<<"a", "b", "c">>), Str(<<"|">>)>>)>>)}

BuiltInPrograms ==
    {App(BuiltIn(f), <<arg>>) :
        f \in BuiltIns,
        arg \in {Str(<<"f">>), Str(<<"-", "1", "2">>), Str(<<"+", "7">>), Str(<<"-">>),
                 Str(<<>>), Lit(-12), Lit(0), Unit, Tup(<<Str(<<"a">>)>>),
                 Tup(<<Str(<<"a">>), Lit(1)>>)}}

ConditionalPrograms ==
    {If(Lit(n), Say(<<"c">>), Say(<<"a">>)) : n \in Ints}
    \cup {If(c, Lit(1), Lit(2)) :
            c \in {Str(<<"a">>), Unit, <<"BooleanLiteral", TRUE>>,
                   <<"BooleanLiteral", FALSE>>, Tup(<<Lit(0)>>),
                   Bin("BinOpLess", Lit(1), Lit(2)), Bin("BinOpLess", Lit(2), Lit(1))}}
    \cup {If(Say(<<"a">>), Say(<<"c">>), Say(<<",">>))}

LetPrograms ==
    {Let(x, Lit(v), Let(y, Lit(w), Sym(z))) :
        x \in Names, y \in Names, z \in Names, v \in SmallInts, w \in SmallInts}
    \cup {Let(x, Lit(v), Bin("BinOpSub", Let(y, Lit(w), Sym(y)), Sym(x))) :
            x \in Names, y \in Names, v \in SmallInts, w \in SmallInts}
    \cup {App(Lam(x, Tup(<<Let(y, Lit(2), Sym(y)), Sym(x)>>)), <<Lit(1)>>) :
            x \in Names, y \in Names}

Arms ==
    << <<0, <<"x">>, Sym("x")>>, <<1, <<>>, Lit(1)>>, <<2, <<"double">>, Sym("double")>>,
       <<0, <<>>, Unit>> >>

ArmLists ==
    {<<Arms[i]>> : i \in 1..4}
    \cup {<<Arms[i], Arms[j]>> : i \in 1..4, j \in 1..4}
    \cup {<<Arms[i], Arms[j], Arms[k]>> : i \in 1..3, j \in 1..3, k \in 1..3}

MatchPrograms ==
    {Match(App(Ctor(0, vi), <<Lit(5)>>), arms) : vi \in 0..2, arms \in ArmLists}
    \cup {Match(m, <<Arms[1]>>) : m \in {Lit(0), Ctor(0, 0), Unit}}
    \cup {Let("x", Lit(3), Match(App(Ctor(0, 0), <<Lit(5)>>),
                                 << <<0, <<"x">>, Sym("x")>> >>))}

ClosurePrograms ==
    {Let("y", Lit(a),
         Let("f", Lam("x", Bin("BinOpSub", Sym("x"), Sym("y"))),
             Tup(<<App(Sym("f"), <<Lit(b)>>),
                   Let(n, Lit(c), App(Sym("f"), <<Lit(b)>>)),
                   Let(n, Lit(c), Let("x", Lit(c), App(Sym("f"), <<Lit(b)>>)))>>))) :
        a \in SmallInts, b \in SmallInts, c \in SmallInts, n \in {"y", "z"}}
    \cup {Let("f", Lam("x", Sym(n)), Let("z", Lit(1), App(Sym("f"), <<Lit(2)>>))) :
            n \in {"x", "z"}}
    \cup {App(Sym("sum"), <<Lit(n)>>) : n \in 0..2}
    \cup {App(Sym("double"), args) : args \in {<<>>, <<Lit(3)>>, <<Lit(3), Lit(1)>>}}

\* Two-argument curried functions, and expressions that are not.
Curried ==
    {Sym("sub"),
     Lam("a", Lam("b", Bin("BinOpSub", Sym("a"), Sym("b")))),
     Lam("a", Lam("a", Sym("a"))),
     Lam("a", Lam("b", Tup(<<Sym("b"), Sym("a")>>))),
     Lam("a", Ctor(0, 1)),
     Lam("a", BuiltIn("Printi")),
     Lam("a", Lam("b", Lam("c", Sym("a")))),
     Lam("a", Sym("a")),
     Let("y", Lit(2), Lam("a", Lam("b", Bin("BinOpSub", Sym("y"), Sym("b")))))}

Arguments ==
    {Lit(n) : n \in SmallInts}
    \cup {Let("a", Lit(1), Sym("a")), Bin("BinOpDiv", Lit(1), Lit(0)), Sym("double")}

CurryPrograms ==
    {Tup(<<App(f, <<a, b>>), App(App(f, <<a>>), <<b>>)>>) :
        f \in Curried, a \in Arguments, b \in Arguments}

OtherPrograms ==
    {Field(Tup(<<Lit(1), Str(<<"a">>)>>), i) : i \in 0..2}
    \cup {Field(e, 0) : e \in {Lit(1), Unit, <<"Record", <<Unit, Lit(2)>> >>}}
    \cup {Ctor(th, vi) : th \in 0..2, vi \in 0..3}
    \cup {Sym(n) : n \in {"answer", "x", "print", "double", "main"}}
    \cup {App(f, <<Lit(2)>>) : f \in {Lit(1), Unit, Str(<<"a">>), Tup(<<>>)}}
    \cup {<<"Record", <<>> >>, <<"Unsupported">>, Tup(<<Unit, <<"Unsupported">> >>)}

Mains ==
    ArithmeticPrograms \cup SplitPrograms \cup BuiltInPrograms
    \cup ConditionalPrograms \cup LetPrograms \cup MatchPrograms
    \cup ClosurePrograms \cup CurryPrograms \cup OtherPrograms

Table(main) ==
    [n \in (DOMAIN Globals) \cup {"main"} |-> IF n = "main" THEN main ELSE Globals[n]]

Programs ==
    {Table(Lam("args", body)) : body \in Mains}
    \cup {Table(BuiltIn("Print")), Globals}

Init ==
    /\ program \in Programs
    /\ stack = <<>>
    /\ bindings = EmptyMap
    /\ out = <<>>
    /\ ctl = <<>>
    /\ status = "init"
    /\ result = None
    /\ hist = <<>>
    /\ calls = <<>>

Next ==
    \/ CallMain
    \/ Finish
    \/ Return
    \/ TupleLoop("Tuple")
    \/ TupleElem("Tuple")
    \/ TupleLoop("Record")
    \/ TupleElem("Record")
    \/ LetStart
    \/ LetBind
    \/ LetExit
    \/ MatchStart
    \/ MatchArm
    \/ MatchExit
    \/ AppStart
    \/ AppLoop
    \/ AppFunction
    \/ AppFunctionRet
    \/ AppVariantConstructor
    \/ AppBuiltIn
    \/ EvalLambda
    \/ EvalBooleanLiteral
    \/ CondStart
    \/ CondBranch
    \/ EvalSymbol
    \/ BinOpStart
    \/ BinOpRhs
    \/ BinOpCombine
    \/ EvalStringLiteral
    \/ EvalIntegerLiteral
    \/ EvalVariantConstructor
    \/ EvalBuiltInFn
    \/ FieldStart
    \/ FieldGet
    \/ EvalUnit
    \/ EvalUnsupported

Spec == Init /\ [][Next]_vars


(***************************************************************************)
(* Properties.                                                             *)
(***************************************************************************)
\* The innermost activation has run to its end and is about to return.
Returning == status = "running" /\ ctl # <<>> /\ Top.pc = "ret"

Here == Last(hist)

Completed(kind) == Returning /\ Tag(Top.expr) = kind

IsInteger(v) == Tag(v) = "Integer"

\* C1: when LetBinding(x, rhs, body) completes and x was bound to v in the
\* local scope at its entry, the local scope binds x to v again.
LetRestoresShadowed ==
    Completed("LetBinding") /\ Top.expr[2] \in DOMAIN Here.scope
        => /\ Top.expr[2] \in DOMAIN bindings
           /\ bindings[Top.expr[2]] = Here.scope[Top.expr[2]]

\* C2: Symbol(name) yields the local value whenever name is bound in the
\* local scope, also when the global table holds the name too.
SymbolLocalFirst ==
    Completed("Symbol") /\ Top.expr[2] \in DOMAIN Here.scope
        => Last(stack) = Here.scope[Top.expr[2]]

\* C3: a Lambda yields a Function holding the local scope of that moment; the
\* body of a called Function starts in exactly its snapshot plus the
\* parameter; and equal closures applied to equal arguments give equal
\* results, whatever the caller's scope is.
LambdaTakesSnapshot ==
    Completed("Lambda")
        => Last(stack) = <<"Function", Top.expr[2], Here.scope, Top.expr[3]>>

BodyScopeIsSnapshotPlusParam ==
    \A i \in 1..(Len(ctl) - 1) :
        Tag(ctl[i].expr) = "Application" /\ ctl[i].pc = "fn_body"
            => LET f == hist[i].call[1]
                   arg == hist[i].call[2]
               IN  /\ ctl[i + 1].expr = f[4]
                   /\ DOMAIN hist[i + 1].scope = (DOMAIN f[3]) \cup {f[2]}
                   /\ hist[i + 1].scope[f[2]] = arg
                   /\ \A n \in (DOMAIN f[3]) \ {f[2]} : hist[i + 1].scope[n] = f[3][n]

CallsAreFunctional ==
    \A i, j \in 1..Len(calls) :
        calls[i][1] = calls[j][1] /\ calls[i][2] = calls[j][2]
            => calls[i][3] = calls[j][3]

ClosuresAreLexical ==
    LambdaTakesSnapshot /\ BodyScopeIsSnapshotPlusParam /\ CallsAreFunctional

\* A closure is being called from a scope that rebinds one of its captured
\* names and holds a name it never captured, after an earlier call of it.
ClosureCalledUnderOtherScope ==
    \E i \in 1..(Len(ctl) - 1) :
        /\ Tag(ctl[i].expr) = "Application" /\ ctl[i].pc = "fn_body"
        /\ LET f == hist[i].call[1]
               caller == ctl[i].loc[2]
           IN  /\ \E n \in (DOMAIN f[3]) \cap (DOMAIN caller) : f[3][n] # caller[n]
               /\ \E n \in DOMAIN caller : n \notin (DOMAIN f[3]) \cup {f[2]}
               /\ \E k \in 1..Len(calls) : calls[k][1] = f /\ calls[k][2] = hist[i].call[2]

\* C4: Application(f, [a, b]) and Application(Application(f, [a]), [b]) yield
\* the same value.
IsCurryPair(es) ==
    /\ Len(es) = 2
    /\ Tag(es[1]) = "Application"
    /\ Len(es[1][3]) = 2
    /\ es[2] = App(App(es[1][2], <<es[1][3][1]>>), <<es[1][3][2]>>)

CurryingLaw ==
    Completed("Tuple") /\ IsCurryPair(Top.expr[2])
        => Here.kids[1][2] = Here.kids[2][2]

CurriedTwice ==
    /\ Completed("Tuple")
    /\ IsCurryPair(Top.expr[2])
    /\ Top.expr[2][1][2] = Sym("sub")
    /\ Here.kids[1][2] = <<"Integer", -3>>
    /\ Len(calls) = 4

\* C5: a MatchSum on Variant(handle, idx, payload) evaluates exactly one arm
\* body, that of the first arm in declaration order whose index is idx, and
\* yields its value; without such an arm the evaluation is fatal.
HasArm(arms, idx) == \E k \in 1..Len(arms) : arms[k][1] = idx

MatchSelectsFirstArm ==
    Completed("MatchSum")
        => LET arms == Top.expr[3]
               idx == Here.kids[1][2][3]
           IN  /\ Len(Here.kids) = 2
               /\ Here.kids[1][1] = Top.expr[2]
               /\ Tag(Here.kids[1][2]) = "Variant"
               /\ \E k \in 1..Len(arms) :
                      /\ arms[k][1] = idx
                      /\ \A j \in 1..(k - 1) : arms[j][1] # idx
                      /\ Here.kids[2][1] = arms[k][3]
               /\ Last(stack) = Here.kids[2][2]

MatchWithoutArm ==
    /\ At("MatchSum", "matchee")
    /\ Tag(Last(stack)) = "Variant"
    /\ ~HasArm(Top.expr[3], Last(stack)[3])

MatchWithoutArmIsFatal == MatchWithoutArm => status' = "fatal"

MatchDispatch == []MatchSelectsFirstArm /\ [][MatchWithoutArmIsFatal]_vars

MatchedLaterArm ==
    /\ Completed("MatchSum")
    /\ Len(Top.expr[3]) = 3
    /\ Here.kids[1][2][3] = 1
    /\ Top.expr[3][3][1] = 1
    /\ Top.expr[3][1][1] = 2
    /\ Top.expr[3][2][1] = 0

\* C6: a value of unexpected shape at a site that requires another variant
\* makes the evaluation fatal at once: nothing more is evaluated or written.
Callable == {"Function", "VariantConstructorFn", "BuiltInFn"}

BuiltInArgumentOk(f, arg) ==
    CASE f \in {"FileRead", "Print", "StringParseInt", "StringGetFirst"} ->
            Tag(arg) = "String"
      [] f = "Printi" -> Tag(arg) = "Integer"
      [] f = "StringSplit" ->
            /\ Tag(arg) = "Tuple"
            /\ Len(arg[2]) = 2
            /\ Tag(arg[2][1]) = "String"
            /\ Tag(arg[2][2]) = "String"
      [] OTHER -> TRUE

UnexpectedShape ==
    /\ status = "running"
    /\ ctl # <<>>
    /\ stack # <<>>
    /\ \/ At("Conditional", "cond") /\ Tag(Last(stack)) # "Integer"
       \/ /\ At("Application", "callee")
          /\ Top.loc[1] <= Len(Top.expr[3])
          /\ Tag(Last(stack)) \notin Callable
       \/ At("MatchSum", "matchee") /\ Tag(Last(stack)) # "Variant"
       \/ At("FieldAccess", "lhs") /\ Tag(Last(stack)) # "Tuple"
       \/ /\ At("BinaryOp", "rhs")
          /\ ~(\E t \in {"Integer", "String"} :
                   Tag(stack[Len(stack)]) = t /\ Tag(stack[Len(stack) - 1]) = t)
       \/ /\ At("Application", "builtin_arg")
          /\ ~BuiltInArgumentOk(Top.loc[2][2], Last(stack))

UnexpectedShapeIsFatal ==
    [][UnexpectedShape => status' = "fatal" /\ ctl' = ctl /\ out' = out]_vars

\* C7: a Conditional whose condition is Integer(n) evaluates exactly one
\* branch, alt when n = 0 and cons for every other n, and yields its value.
ConditionalTruthiness ==
    Completed("Conditional") /\ IsInteger(Here.kids[1][2])
        => LET n == Here.kids[1][2][2]
               selected == IF n = 0 THEN Top.expr[4] ELSE Top.expr[3]
           IN  /\ Len(Here.kids) = 2
               /\ Here.kids[1][1] = Top.expr[2]
               /\ Here.kids[2][1] = selected
               /\ Last(stack) = Here.kids[2][2]

NegativeConditionTookCons ==
    /\ Completed("Conditional")
    /\ IsInteger(Here.kids[1][2])
    /\ Here.kids[1][2][2] < 0
    /\ Here.kids[2][1] = Top.expr[3]
    /\ out = <<"c">>

\* C8: Integer BinaryOp combines its operands as lhs op rhs: Sub is l - r,
\* Less is 1 iff l < r, Div is the quotient truncated toward zero, Mod the
\* matching remainder, and Div or Mod by zero is fatal.
IsRemainder(l, r, m) ==
    /\ Abs(m) < Abs(r)
    /\ m = 0 \/ (m < 0) = (l < 0)
    /\ (l - m) % Abs(r) = 0

IntegerResult(op, l, r, v) ==
    CASE op = "BinOpSub" -> v = l - r
      [] op = "BinOpLess" -> v = (IF l < r THEN 1 ELSE 0)
      [] op = "BinOpDiv" -> r # 0 /\ IsRemainder(l, r, l - v * r)
      [] op = "BinOpMod" -> r # 0 /\ IsRemainder(l, r, v)
      [] OTHER -> TRUE

IntegerOperands ==
    /\ Completed("BinaryOp")
    /\ IsInteger(Here.kids[1][2])
    /\ IsInteger(Here.kids[2][2])

BinaryOpResult ==
    IntegerOperands
        => /\ IsInteger(Last(stack))
           /\ IntegerResult(Top.expr[2], Here.kids[1][2][2], Here.kids[2][2][2],
                            Last(stack)[2])

DivisionByZero ==
    /\ At("BinaryOp", "rhs")
    /\ Top.expr[2] \in {"BinOpDiv", "BinOpMod"}
    /\ IsInteger(stack[Len(stack) - 1])
    /\ Last(stack) = <<"Integer", 0>>

DivisionByZeroIsFatal == DivisionByZero => status' = "fatal"

BinaryOpOperandOrder == []BinaryOpResult /\ [][DivisionByZeroIsFatal]_vars

NegativeDividendTruncated ==
    /\ Completed("BinaryOp")
    /\ Top.expr = Bin("BinOpDiv", Lit(-7), Lit(2))
    /\ Last(stack) = <<"Integer", -3>>

\* C9: StringSplit on Tuple(String input, String sep) yields (prefix, suffix)
\* with prefix ++ sep ++ suffix = input and sep starting nowhere before the
\* end of prefix when sep occurs in input, and (input, "") when it does not.
StartsAt(input, sep, i) ==
    i + Len(sep) <= Len(input) /\ SubSeq(input, i + 1, i + Len(sep)) = sep

Occurs(input, sep) == \E i \in 0..Len(input) : StartsAt(input, sep, i)

IsStringPair(v) ==
    /\ Tag(v) = "Tuple"
    /\ Len(v[2]) = 2
    /\ Tag(v[2][1]) = "String"
    /\ Tag(v[2][2]) = "String"

SplitCall ==
    /\ Completed("Application")
    /\ Len(Here.kids) = 2
    /\ Here.kids[1][2] = <<"BuiltInFn", "StringSplit">>
    /\ IsStringPair(Here.kids[2][2])

StringSplitAtFirstOccurrence ==
    SplitCall
        => LET input == Here.kids[2][2][2][1][2]
               sep == Here.kids[2][2][2][2][2]
               r == Last(stack)
           IN  /\ IsStringPair(r)
               /\ LET prefix == r[2][1][2]
                      suffix == r[2][2][2]
                  IN  IF Occurs(input, sep)
                      THEN /\ prefix \o sep \o suffix = input
                           /\ \A i \in 0..(Len(prefix) - 1) : ~StartsAt(input, sep, i)
                      ELSE prefix = input /\ suffix = <<>>

SplitAtFirstOfTwo ==
    /\ SplitCall
    /\ Here.kids[2][2][2][1][2] = <<"a", ",", ",">>
    /\ Here.kids[2][2][2][2][2] = <<",">>
    /\ Last(stack) = <<"Tuple", << <<"String", <<"a">> >>, <<"String", <<",">> >> >> >>

\* C10: an activation of eval_expr that completes leaves the stack as it
\* was at its entry plus its result on top; no pop finds the stack empty;
\* and when main has run the stack holds exactly one value.
Pops(f) ==
    CASE f.pc \in {"elem", "matchee", "fn_arg", "ctor_arg", "builtin_arg", "cond"} -> 1
      [] Tag(f.expr) = "LetBinding" /\ f.pc = "rhs" -> 1
      [] Tag(f.expr) = "FieldAccess" /\ f.pc = "lhs" -> 1
      [] Tag(f.expr) = "BinaryOp" /\ f.pc = "rhs" -> 2
      [] Tag(f.expr) = "Application" /\ f.pc = "callee"
            /\ f.loc[1] <= Len(f.expr[3]) -> 1
      [] OTHER -> 0

StackDiscipline ==
    /\ Len(hist) = Len(ctl)
    /\ Returning => stack = Append(Here.entry, Last(stack))
    /\ status = "running" /\ ctl # <<>> => Len(stack) >= Len(Here.entry) + Pops(Top)
    /\ status = "running" /\ ctl = <<>> => Len(stack) = 1
    /\ status = "done" => stack = <<>> /\ result # None

NestedCallCompleted ==
    /\ Completed("Application")
    /\ Len(ctl) >= 4
    /\ Len(Here.entry) >= 2
    /\ Len(calls) >= 1


=============================================================================
